---------------------------- MODULE Spec2Model ----------------------------
(***************************************************************************)
(* Model of the RSVP reader engine of speed-reader (src/js/reader.js), of  *)
(* the host facilities it uses (setTimeout / clearTimeout / Date.now) and  *)
(* of the application around it (src/js/storage.js): the settings kept in   *)
(* localStorage, the two views and the play/pause button.                  *)
(*                                                                         *)
(* A string is a sequence of one-character strings, so that the regular-   *)
(* expression passes of the engine can be computed character by character. *)
(* Times are integer milliseconds.                                         *)
(***************************************************************************)
EXTENDS Integers, Sequences, FiniteSets, TLC

VARIABLES
    words,          \* Reader.words: sequence of tokens
    currentIndex,   \* Reader.currentIndex
    isPlaying,      \* Reader.isPlaying
    timer,          \* Reader.timer: id of the last timeout set, or NULL
    expectedTime,   \* Reader.expectedTime: the scheduling anchor
    hooks,          \* which of onWordChange/onProgress/onComplete/getWPM are set
    settingsWpm,    \* App.settings.wpm, the value the getWPM hook returns
    timeouts,       \* host: the timeouts set and neither fired nor cleared
    now,            \* host: Date.now()
    emitted,        \* hook invocations made by the last operation, in order
    lastOp,         \* the last operation performed, and what it found
    query,          \* a direct call of a method that computes a value from
                    \* its arguments: its name, arguments and result
    playPauseBtn,   \* App: the aria-label of the play/pause button
    readerViewHidden, \* App: the reader view has the class hidden (the
                    \* input view is the visible view)
    stored          \* localStorage: the rate of the settings item, if any

vars == <<words, currentIndex, isPlaying, timer, expectedTime, hooks,
          settingsWpm, timeouts, now, emitted, lastOp, query,
          playPauseBtn, readerViewHidden, stored>>

-----------------------------------------------------------------------------
(* Bounds of the model *)

\* a text handed to init is made of at most MaxPieces fragments
MaxPieces == 3
\* the clock stops advancing at MaxTime
MaxTime == 600
\* the host never holds more than MaxTimeouts timeouts
MaxTimeouts == 3
\* a token handed to a word method has at most MaxRun letters and digits
MaxRun == 14
\* and ends with at most MaxTrail punctuation characters
MaxTrail == 2
\* the lengths of the sequences of a progress report: 0..SmallWords and
\* MaxWords
SmallWords == 8
MaxWords == 299
\* a timeout's callback runs at most MaxLatency ms after it is due
MaxLatency == 100

\* the fragments the texts of the model are cut from
Corpus ==
    << <<" ">>,
       <<"[", "1", "]">>,
       <<" ", "a">>,
       <<"\n", "b", ".">>,
       <<" ", "a", "\t">> >>

\* the amounts of time that pass between two events
ElapseSteps == {100}

\* the rates the settings collaborator supplies (both divide 6000, so every
\* duration is a whole number of milliseconds)
Rates == {300, 600}

\* rates no setting in the supported range has
BadRates == {-300, 0}

NULL == 0

-----------------------------------------------------------------------------
(* Characters and strings *)

Whitespace == {" ", "\n", "\t"}
Digits == {"0", "1", "2", "3", "4", "5", "6", "7", "8", "9"}
Letters ==
    {"a", "b", "c", "d", "e", "f", "g", "h", "i", "j", "k", "l", "m",
     "n", "o", "p", "q", "r", "s", "t", "u", "v", "w", "x", "y", "z",
     "A", "B", "C", "D", "E", "F", "G", "H", "I", "J", "K", "L", "M",
     "N", "O", "P", "Q", "R", "S", "T", "U", "V", "W", "X", "Y", "Z"}
\* the class \w of the source's regular expressions
WordChars == Letters \cup Digits \cup {"_"}

Max(a, b) == IF a >= b THEN a ELSE b

RECURSIVE Flatten(_)
Flatten(ss) == IF ss = <<>> THEN <<>> ELSE Head(ss) \o Flatten(Tail(ss))

\* s[i..j], empty when i > j
Sub(s, i, j) == IF i > j THEN <<>> ELSE SubSeq(s, i, j)

\* the texts init is called with: the runs of at most MaxPieces consecutive
\* fragments of the corpus (the empty text among them)
Texts ==
    {Flatten(Sub(Corpus, p[1], p[1] + p[2] - 1)) :
        p \in {q \in (1..Len(Corpus)) \X (0..MaxPieces) :
                  q[1] + q[2] - 1 <= Len(Corpus)}}

\* Hello, world. This is a test
HelloText ==
    <<"H", "e", "l", "l", "o", ",", " ", "w", "o", "r", "l", "d", ".", " ",
      "T", "h", "i", "s", " ", "i", "s", " ", "a", " ", "t", "e", "s", "t">>

\* a text with URLs and a citation marker inside a word
UrlText ==
    <<"a", " ", "h", "t", "t", "p", ":", "/", "/", "x", ".", "y", " ", "b",
      "[", "1", "2", "]", "c", "\t", "w", "w", "w", ".", "z", " ", "d">>

\* a citation marker inside brackets
NestedText ==
    <<"[", "[", "1", "]", "2", "]", " ", "x">>

\* a text with quotes and brackets around the punctuation
QuotedText ==
    <<"s", "a", "y", " ", "\"", "n", "o", ".", "\"", " ", "(", "e", "n",
      "d", ")">>

Samples == {HelloText, UrlText, NestedText, QuotedText}

\* TRUE iff the characters of p occur in s starting at position i
StartsAt(s, i, p) ==
    /\ i + Len(p) - 1 <= Len(s)
    /\ \A k \in 1..Len(p) : s[i + k - 1] = p[k]

\* number of consecutive characters of class C in s from position i on
RECURSIVE RunLen(_, _, _)
RunLen(s, i, C) ==
    IF i > Len(s) \/ s[i] \notin C THEN 0 ELSE 1 + RunLen(s, i + 1, C)

\* number of consecutive characters outside class C in s from position i on
RECURSIVE RunLenNot(_, _, _)
RunLenNot(s, i, C) ==
    IF i > Len(s) \/ s[i] \in C THEN 0 ELSE 1 + RunLenNot(s, i + 1, C)

\* /\[\d+\]/
CitationMatch(s, i) ==
    IF i <= Len(s) /\ s[i] = "["
    THEN LET d == RunLen(s, i + 1, Digits)
         IN  IF d > 0 /\ i + d + 1 <= Len(s) /\ s[i + d + 1] = "]"
             THEN d + 2 ELSE 0
    ELSE 0

\* /https?:\/\/[^\s]+/
HttpMatch(s, i) ==
    LET p == IF StartsAt(s, i, <<"h", "t", "t", "p", "s", ":", "/", "/">>) THEN 8
             ELSE IF StartsAt(s, i, <<"h", "t", "t", "p", ":", "/", "/">>) THEN 7
             ELSE 0
        r == RunLenNot(s, i + p, Whitespace)
    IN  IF p > 0 /\ r > 0 THEN p + r ELSE 0

\* /www\.[^\s]+/
WwwMatch(s, i) ==
    LET r == RunLenNot(s, i + 4, Whitespace)
    IN  IF StartsAt(s, i, <<"w", "w", "w", ".">>) /\ r > 0 THEN 4 + r ELSE 0

\* length of the match of the regular expression re at position i of s, or 0
\* when re does not match there
MatchLen(re, s, i) ==
    CASE re = "citation" -> CitationMatch(s, i)
      [] re = "http"     -> HttpMatch(s, i)
      [] re = "www"      -> WwwMatch(s, i)

\* s.replace(/re/g, ''): the matches are found left to right in one pass, the
\* search resuming after each match; the result is not scanned again
RECURSIVE ReplaceAll(_, _, _)
ReplaceAll(s, i, re) ==
    IF i > Len(s) THEN <<>>
    ELSE LET n == MatchLen(re, s, i)
         IN  IF n > 0 THEN ReplaceAll(s, i + n, re)
             ELSE <<s[i]>> \o ReplaceAll(s, i + 1, re)

removeCitations(text) ==
    ReplaceAll(ReplaceAll(ReplaceAll(text, 1, "citation"), 1, "http"), 1, "www")

\* text.trim()
trim(s) ==
    LET lead  == RunLen(s, 1, Whitespace)
        rest  == Sub(s, lead + 1, Len(s))
        Rev(t) == [k \in 1..Len(t) |-> t[Len(t) + 1 - k]]
        trail == RunLen(Rev(rest), 1, Whitespace)
    IN  Sub(rest, 1, Len(rest) - trail)

\* split on the runs of spaces only
RECURSIVE split_spaces(_)
split_spaces(s) ==
    LET n == RunLenNot(s, 1, {" "})
        g == RunLen(s, n + 1, {" "})
    IN  IF g = 0 THEN <<Sub(s, 1, n)>>
        ELSE <<Sub(s, 1, n)>> \o split_spaces(Sub(s, n + g + 1, Len(s)))

\* s.split(/\s+/): the pieces of s between the maximal runs of whitespace
\* (the pieces before a leading run and after a trailing run are empty
\* strings, and the split of the empty string is one empty string)
RECURSIVE split(_)
split(s) ==
    LET n == RunLenNot(s, 1, Whitespace)
        g == RunLen(s, n + 1, Whitespace)
    IN  IF g = 0 THEN <<Sub(s, 1, n)>>
        ELSE <<Sub(s, 1, n)>> \o split(Sub(s, n + g + 1, Len(s)))

\* parseText without the filter of empty pieces
parseText_noFilter(text) ==
    split(trim(removeCitations(text)))

parseText(text) ==
    SelectSeq(split(trim(removeCitations(text))), LAMBDA word : Len(word) > 0)

-----------------------------------------------------------------------------
(* Words: highlight, split, duration, progress *)

\* word.replace(/[^\w]/g, '')
stripPunctuation(word) == SelectSeq(word, LAMBDA c : c \in WordChars)

getORPIndex(word) ==
    LET length == Len(stripPunctuation(word))
    IN  IF length <= 1 THEN 0
        ELSE IF length <= 5 THEN 1
        ELSE IF length <= 9 THEN 2
        ELSE IF length <= 13 THEN 3
        ELSE 4

\* highlightIndex is zero-based; cleanWord[highlightIndex] || '' is the empty
\* string when the index is past the end
splitWord(word) ==
    LET cleanWord == stripPunctuation(word)
        highlightIndex == getORPIndex(word)
    IN  [before    |-> Sub(cleanWord, 1, IF highlightIndex <= Len(cleanWord)
                                         THEN highlightIndex ELSE Len(cleanWord)),
         highlight |-> IF highlightIndex + 1 <= Len(cleanWord)
                       THEN <<cleanWord[highlightIndex + 1]>> ELSE <<>>,
         after     |-> Sub(cleanWord, highlightIndex + 2, Len(cleanWord))]

\* the characters of the class ['"""'\)\]] stripped from the end of a word
TrailingClosers == {"'", "\"", ")", "]"}

\* the em dash, one character of a word
EmDash == "EMDASH"

\* the right double quotation mark (U+201D), one character of a word
RightQuote == "RDQUO"

\* punctuationMultipliers[lastChar] || 1.0, in tenths.  lastChar is one
\* character or undefined (<<>>); the table's sixth key is a string of three
\* characters (U+00E2 U+20AC U+201D), which no single character equals.
Multiplier10(lastChar) ==
    CASE lastChar \in {<<".">>, <<"!">>, <<"?">>} -> 20
      [] lastChar \in {<<",">>, <<";">>, <<":">>} -> 15
      [] lastChar = <<"a^", "EURO", RightQuote>>  -> 13
      [] lastChar = <<"-">>                       -> 12
      [] OTHER                                    -> 10

\* getWordDuration without the punctuation delay
getWordDuration_flat(word, wpm) ==
    60000 \div wpm

\* baseDelay * multiplier with baseDelay = 60000 / wpm; the quotient is exact
\* for the rates of the model
getWordDuration(word, wpm) ==
    LET Rev(t) == [k \in 1..Len(t) |-> t[Len(t) + 1 - k]]
        cleanWord == Sub(word, 1, Len(word) - RunLen(Rev(word), 1, TrailingClosers))
        lastChar == IF cleanWord = <<>> THEN <<>> ELSE <<cleanWord[Len(cleanWord)]>>
    IN  (60000 * Multiplier10(lastChar)) \div (10 * wpm)

\* Math.round(x) = floor(x + 1/2) for x = num / den, den > 0
Round(num, den) == (2 * num + den) \div (2 * den)

\* a % b of the source for b > 0: the remainder has the sign of a
Rem(a, b) == IF a >= 0 THEN a % b ELSE -((-a) % b)

\* formatTime(seconds) for seconds = num / den: mins = floor(seconds / 60),
\* secs = round(seconds % 60); the text is mins, ":" and secs padded to two
\* digits, kept here as the two numbers.  With den = 0 the seconds are
\* Infinity or NaN and the text is "Infinity:NaN" or "NaN:NaN": finite is
\* FALSE then, and mins and secs stand for no number.
formatTime(num, den) ==
    IF den = 0 THEN [finite |-> FALSE, mins |-> 0, secs |-> 0]
    ELSE LET n == IF den < 0 THEN -num ELSE num
             d == IF den < 0 THEN -den ELSE den
         IN  [finite |-> TRUE,
              mins   |-> n \div (60 * d),
              secs   |-> Round(Rem(n, 60 * d), d)]

\* getProgress with the percentage truncated
getProgress_truncate(totalWords, index, wpm) ==
    LET remainingWords == totalWords - index
    IN  [percentage    |-> IF totalWords > 0 THEN (index * 100) \div totalWords ELSE 0,
         currentWord   |-> index + 1,
         totalWords    |-> totalWords,
         remainingTime |-> formatTime(remainingWords * 60, wpm)]

\* getProgress(wpm) on a reader with the given length and index
getProgress(totalWords, index, wpm) ==
    LET remainingWords == totalWords - index
    IN  [percentage    |-> IF totalWords > 0 THEN Round(index * 100, totalWords) ELSE 0,
         currentWord   |-> index + 1,
         totalWords    |-> totalWords,
         remainingTime |-> formatTime(remainingWords * 60, wpm)]

-----------------------------------------------------------------------------
(* The engine.  An operation is a function from the machine (the Reader   *)
(* object, the host's timeouts and clock, the hooks' call log) to the      *)
(* machine, so that operations compose the way the code calls them.        *)

Machine ==
    [words |-> words, currentIndex |-> currentIndex, isPlaying |-> isPlaying,
     timer |-> timer, expectedTime |-> expectedTime, hooks |-> hooks,
     settingsWpm |-> settingsWpm, timeouts |-> timeouts, now |-> now,
     emitted |-> <<>>, playPauseBtn |-> playPauseBtn,
     readerViewHidden |-> readerViewHidden, stored |-> stored]

\* hook invocations, as recorded in the call log
WordChange(parts) == [hook |-> "onWordChange", arg |-> parts]
Progress(p) == [hook |-> "onProgress", arg |-> p]
Complete == [hook |-> "onComplete"]

\* App.updatePlayPauseButton(isPlaying): the label of the button
updatePlayPauseButton(m, playing) ==
    [m EXCEPT !.playPauseBtn = IF playing THEN "Pause" ELSE "Play"]

\* if (this.h) this.h(arg), the hooks being those App.setupReaderCallbacks
\* sets: onWordChange and onProgress render their argument, onComplete
\* calls updatePlayPauseButton(false)
Invoke(m, h, call) ==
    IF h \in m.hooks
    THEN LET m1 == [m EXCEPT !.emitted = Append(@, call)]
         IN  IF h = "onComplete" THEN updatePlayPauseButton(m1, FALSE) ELSE m1
    ELSE m

\* host: setTimeout returns an id that no outstanding timeout has
setTimeoutId(m) ==
    CHOOSE i \in 1..(MaxTimeouts + 1) :
        /\ i \notin {t.id : t \in m.timeouts}
        /\ \A j \in 1..(i - 1) : j \in {t.id : t \in m.timeouts}

\* host: clearTimeout(id)
clearTimeout(m, id) ==
    [m EXCEPT !.timeouts = {t \in @ : t.id # id}]

\* setTimer that keeps the id of a timeout the host never holds
setTimer_dropped(m, delay) ==
    [m EXCEPT !.timer = setTimeoutId(m)]

\* this.timer = setTimeout(callback, delay); the callback is TimerFire
setTimer(m, delay) ==
    LET id == setTimeoutId(m)
    IN  [m EXCEPT !.timer = id,
                  !.timeouts = @ \cup {[id |-> id, due |-> m.now + delay]}]

\* scheduleNext whose completion test is off by one (> for >=)
scheduleNext_lateComplete(m) ==
    IF ~m.isPlaying \/ m.currentIndex >= Len(m.words)
    THEN LET m1 == [m EXCEPT !.isPlaying = FALSE]
         IN  IF m1.currentIndex > Len(m1.words)
             THEN Invoke(m1, "onComplete", Complete)
             ELSE m1
    ELSE LET wpm == IF "getWPM" \in m.hooks THEN m.settingsWpm ELSE 300
             word == m.words[m.currentIndex + 1]
             duration == getWordDuration(word, wpm)
             drift == m.now - m.expectedTime
             delay == Max(0, duration - drift)
             m1 == [m EXCEPT !.expectedTime = @ + duration]
             m2 == Invoke(m1, "onWordChange", WordChange(splitWord(word)))
             m3 == Invoke(m2, "onProgress",
                          Progress(getProgress(Len(m2.words), m2.currentIndex, wpm)))
         IN  setTimer(m3, delay)

\* scheduleNext that sets the timeout without displaying the word
scheduleNext_silent(m) ==
    IF ~m.isPlaying \/ m.currentIndex >= Len(m.words)
    THEN LET m1 == [m EXCEPT !.isPlaying = FALSE]
         IN  IF m1.currentIndex >= Len(m1.words)
             THEN Invoke(m1, "onComplete", Complete)
             ELSE m1
    ELSE LET wpm == IF "getWPM" \in m.hooks THEN m.settingsWpm ELSE 300
             word == m.words[m.currentIndex + 1]
             duration == getWordDuration(word, wpm)
             drift == m.now - m.expectedTime
             delay == Max(0, duration - drift)
             m1 == [m EXCEPT !.expectedTime = @ + duration]
         IN  setTimer(m1, delay)

\* scheduleNext that ignores the getWPM hook
scheduleNext_fixedRate(m) ==
    IF ~m.isPlaying \/ m.currentIndex >= Len(m.words)
    THEN LET m1 == [m EXCEPT !.isPlaying = FALSE]
         IN  IF m1.currentIndex >= Len(m1.words)
             THEN Invoke(m1, "onComplete", Complete)
             ELSE m1
    ELSE LET wpm == 300
             word == m.words[m.currentIndex + 1]
             duration == getWordDuration(word, wpm)
             drift == m.now - m.expectedTime
             delay == Max(0, duration - drift)
             m1 == [m EXCEPT !.expectedTime = @ + duration]
             m2 == Invoke(m1, "onWordChange", WordChange(splitWord(word)))
             m3 == Invoke(m2, "onProgress",
                          Progress(getProgress(Len(m2.words), m2.currentIndex, wpm)))
         IN  setTimer(m3, delay)

\* scheduleNext that waits the full duration, whatever the drift
scheduleNext_noDrift(m) ==
    IF ~m.isPlaying \/ m.currentIndex >= Len(m.words)
    THEN LET m1 == [m EXCEPT !.isPlaying = FALSE]
         IN  IF m1.currentIndex >= Len(m1.words)
             THEN Invoke(m1, "onComplete", Complete)
             ELSE m1
    ELSE LET wpm == IF "getWPM" \in m.hooks THEN m.settingsWpm ELSE 300
             word == m.words[m.currentIndex + 1]
             duration == getWordDuration(word, wpm)
             m1 == [m EXCEPT !.expectedTime = @ + duration]
             m2 == Invoke(m1, "onWordChange", WordChange(splitWord(word)))
             m3 == Invoke(m2, "onProgress",
                          Progress(getProgress(Len(m2.words), m2.currentIndex, wpm)))
         IN  setTimer(m3, duration)

\* scheduleNext that completes without leaving the playing mode
scheduleNext_staysPlaying(m) ==
    IF ~m.isPlaying \/ m.currentIndex >= Len(m.words)
    THEN IF m.currentIndex >= Len(m.words)
         THEN Invoke(m, "onComplete", Complete)
         ELSE m
    ELSE LET wpm == IF "getWPM" \in m.hooks THEN m.settingsWpm ELSE 300
             word == m.words[m.currentIndex + 1]
             duration == getWordDuration(word, wpm)
             drift == m.now - m.expectedTime
             delay == Max(0, duration - drift)
             m1 == [m EXCEPT !.expectedTime = @ + duration]
             m2 == Invoke(m1, "onWordChange", WordChange(splitWord(word)))
             m3 == Invoke(m2, "onProgress",
                          Progress(getProgress(Len(m2.words), m2.currentIndex, wpm)))
         IN  setTimer(m3, delay)

\* scheduleNext that moves the anchor by twice the duration
scheduleNext_anchorAhead(m) ==
    IF ~m.isPlaying \/ m.currentIndex >= Len(m.words)
    THEN LET m1 == [m EXCEPT !.isPlaying = FALSE]
         IN  IF m1.currentIndex >= Len(m1.words)
             THEN Invoke(m1, "onComplete", Complete)
             ELSE m1
    ELSE LET wpm == IF "getWPM" \in m.hooks THEN m.settingsWpm ELSE 300
             word == m.words[m.currentIndex + 1]
             duration == getWordDuration(word, wpm)
             drift == m.now - m.expectedTime
             delay == Max(0, duration - drift)
             m1 == [m EXCEPT !.expectedTime = @ + 2 * duration]
             m2 == Invoke(m1, "onWordChange", WordChange(splitWord(word)))
             m3 == Invoke(m2, "onProgress",
                          Progress(getProgress(Len(m2.words), m2.currentIndex, wpm)))
         IN  setTimer(m3, delay)

\* scheduleNext that sets the anchor from the current time at every step
scheduleNext_reanchor(m) ==
    IF ~m.isPlaying \/ m.currentIndex >= Len(m.words)
    THEN LET m1 == [m EXCEPT !.isPlaying = FALSE]
         IN  IF m1.currentIndex >= Len(m1.words)
             THEN Invoke(m1, "onComplete", Complete)
             ELSE m1
    ELSE LET wpm == IF "getWPM" \in m.hooks THEN m.settingsWpm ELSE 300
             word == m.words[m.currentIndex + 1]
             duration == getWordDuration(word, wpm)
             drift == m.now - m.expectedTime
             delay == Max(0, duration - drift)
             m1 == [m EXCEPT !.expectedTime = m.now + duration]
             m2 == Invoke(m1, "onWordChange", WordChange(splitWord(word)))
             m3 == Invoke(m2, "onProgress",
                          Progress(getProgress(Len(m2.words), m2.currentIndex, wpm)))
         IN  setTimer(m3, delay)

scheduleNext(m) ==
    IF ~m.isPlaying \/ m.currentIndex >= Len(m.words)
    THEN LET m1 == [m EXCEPT !.isPlaying = FALSE]
         IN  IF m1.currentIndex >= Len(m1.words)
             THEN Invoke(m1, "onComplete", Complete)
             ELSE m1
    ELSE LET wpm == IF "getWPM" \in m.hooks THEN m.settingsWpm ELSE 300
             word == m.words[m.currentIndex + 1]
             duration == getWordDuration(word, wpm)
             drift == m.now - m.expectedTime
             delay == Max(0, duration - drift)
             m1 == [m EXCEPT !.expectedTime = @ + duration]
             m2 == Invoke(m1, "onWordChange", WordChange(splitWord(word)))
             m3 == Invoke(m2, "onProgress",
                          Progress(getProgress(Len(m2.words), m2.currentIndex, wpm)))
         IN  setTimer(m3, delay)

\* the callback without the increment of the index
timerCallback_noIncrement(m) ==
    scheduleNext(m)

\* the callback of the timeout set by scheduleNext
timerCallback(m) ==
    scheduleNext([m EXCEPT !.currentIndex = @ + 1])

\* play without the test of isPlaying
play_noGuard(m) ==
    LET m1 == IF m.currentIndex >= Len(m.words)
              THEN [m EXCEPT !.currentIndex = 0] ELSE m
    IN  scheduleNext([m1 EXCEPT !.isPlaying = TRUE, !.expectedTime = m.now])

\* play that sets the anchor before the test of isPlaying
play_anchorFirst(m) ==
    IF m.isPlaying THEN [m EXCEPT !.expectedTime = m.now]
    ELSE LET m1 == IF m.currentIndex >= Len(m.words)
                   THEN [m EXCEPT !.currentIndex = 0] ELSE m
         IN  scheduleNext([m1 EXCEPT !.isPlaying = TRUE, !.expectedTime = m.now])

\* play without the wrap of the index at the terminal position
play_noWrap(m) ==
    IF m.isPlaying THEN m
    ELSE scheduleNext([m EXCEPT !.isPlaying = TRUE, !.expectedTime = m.now])

\* play that returns at once when there is no token
play_emptyGuard(m) ==
    IF m.isPlaying \/ m.words = <<>> THEN m
    ELSE LET m1 == IF m.currentIndex >= Len(m.words)
                   THEN [m EXCEPT !.currentIndex = 0] ELSE m
         IN  scheduleNext([m1 EXCEPT !.isPlaying = TRUE, !.expectedTime = m.now])

\* play that keeps the anchor of the playback before
play_noAnchor(m) ==
    IF m.isPlaying THEN m
    ELSE LET m1 == IF m.currentIndex >= Len(m.words)
                   THEN [m EXCEPT !.currentIndex = 0] ELSE m
         IN  scheduleNext([m1 EXCEPT !.isPlaying = TRUE])

play(m) ==
    IF m.isPlaying THEN m
    ELSE LET m1 == IF m.currentIndex >= Len(m.words)
                   THEN [m EXCEPT !.currentIndex = 0] ELSE m
         IN  scheduleNext([m1 EXCEPT !.isPlaying = TRUE, !.expectedTime = m.now])

\* pause that forgets the timer without clearing its timeout
pause_noClear(m) ==
    [m EXCEPT !.isPlaying = FALSE, !.timer = NULL]

\* pause that also rewinds, as stop does
pause_rewind(m) ==
    LET m1 == [m EXCEPT !.isPlaying = FALSE, !.currentIndex = 0]
    IN  IF m1.timer # NULL
        THEN [clearTimeout(m1, m1.timer) EXCEPT !.timer = NULL]
        ELSE m1

\* pause that toggles the mode
pause_toggle(m) ==
    LET m1 == [m EXCEPT !.isPlaying = ~@]
    IN  IF m1.timer # NULL
        THEN [clearTimeout(m1, m1.timer) EXCEPT !.timer = NULL]
        ELSE m1

pause(m) ==
    LET m1 == [m EXCEPT !.isPlaying = FALSE]
    IN  IF m1.timer # NULL
        THEN [clearTimeout(m1, m1.timer) EXCEPT !.timer = NULL]
        ELSE m1

\* stop without the call of pause
stop_noPause(m) ==
    [m EXCEPT !.currentIndex = 0]

stop(m) ==
    [pause(m) EXCEPT !.currentIndex = 0]

\* init without the call of stop
init_noStop(m, text) ==
    [m EXCEPT !.words = parseText(text),
              !.currentIndex = 0,
              !.isPlaying = FALSE]

init(m, text) ==
    stop([m EXCEPT !.words = parseText(text),
                   !.currentIndex = 0,
                   !.isPlaying = FALSE])

restart(m) ==
    LET m1 == [pause(m) EXCEPT !.currentIndex = 0]
        m2 == IF Len(m1.words) > 0
              THEN Invoke(m1, "onWordChange", WordChange(splitWord(m1.words[1])))
              ELSE m1
    IN  Invoke(m2, "onProgress",
               Progress(getProgress(Len(m2.words), m2.currentIndex, 300)))

\* goToEnd without the call of pause
goToEnd_noPause(m) ==
    LET m1 == [m EXCEPT !.currentIndex = Max(0, Len(m.words) - 1)]
        m2 == IF Len(m1.words) > 0
              THEN Invoke(m1, "onWordChange",
                          WordChange(splitWord(m1.words[m1.currentIndex + 1])))
              ELSE m1
    IN  Invoke(m2, "onProgress",
               Progress(getProgress(Len(m2.words), m2.currentIndex, 300)))

\* goToEnd without the floor of the index at 0
goToEnd_noMax(m) ==
    LET m1 == [pause(m) EXCEPT !.currentIndex = Len(m.words) - 1]
        m2 == IF Len(m1.words) > 0
              THEN Invoke(m1, "onWordChange",
                          WordChange(splitWord(m1.words[m1.currentIndex + 1])))
              ELSE m1
    IN  Invoke(m2, "onProgress",
               Progress(getProgress(Len(m2.words), m2.currentIndex, 300)))

goToEnd(m) ==
    LET m1 == [pause(m) EXCEPT !.currentIndex = Max(0, Len(m.words) - 1)]
        m2 == IF Len(m1.words) > 0
              THEN Invoke(m1, "onWordChange",
                          WordChange(splitWord(m1.words[m1.currentIndex + 1])))
              ELSE m1
    IN  Invoke(m2, "onProgress",
               Progress(getProgress(Len(m2.words), m2.currentIndex, 300)))

\* displayWordAt that clamps an index out of range to the nearest token
displayWordAt_clamp(m, index, wpm) ==
    IF Len(m.words) > 0
    THEN LET i == Max(0, IF index < Len(m.words) THEN index ELSE Len(m.words) - 1)
             m1 == [m EXCEPT !.currentIndex = i]
             m2 == Invoke(m1, "onWordChange", WordChange(splitWord(m1.words[i + 1])))
         IN  Invoke(m2, "onProgress",
                    Progress(getProgress(Len(m2.words), m2.currentIndex, wpm)))
    ELSE m

\* displayWordAt that computes the progress before it moves the index
displayWordAt_staleProgress(m, index, wpm) ==
    IF index >= 0 /\ index < Len(m.words)
    THEN LET p == Progress(getProgress(Len(m.words), m.currentIndex, wpm))
             m1 == [m EXCEPT !.currentIndex = index]
             m2 == Invoke(m1, "onWordChange", WordChange(splitWord(m1.words[index + 1])))
         IN  Invoke(m2, "onProgress", p)
    ELSE m

displayWordAt(m, index, wpm) ==
    IF index >= 0 /\ index < Len(m.words)
    THEN LET m1 == [m EXCEPT !.currentIndex = index]
             m2 == Invoke(m1, "onWordChange", WordChange(splitWord(m1.words[index + 1])))
         IN  Invoke(m2, "onProgress",
                    Progress(getProgress(Len(m2.words), m2.currentIndex, wpm)))
    ELSE m

\* App.setupReaderCallbacks: all four hooks are set
setupReaderCallbacks(m) ==
    [m EXCEPT !.hooks = {"onWordChange", "onProgress", "onComplete", "getWPM"}]

\* a settings item in localStorage with the rate wpm, and no item
Saved(wpm) == [present |-> TRUE, wpm |-> wpm]
NoItem == [present |-> FALSE, wpm |-> 0]

\* App.updateWPM(value), the value already parsed: the rate is set and
\* Storage.updateSetting saves the settings with it
updateWPM(m, value) ==
    [m EXCEPT !.settingsWpm = value, !.stored = Saved(value)]

-----------------------------------------------------------------------------
(* The state machine *)

\* what an operation found when it was called
From ==
    [currentIndex |-> currentIndex, isPlaying |-> isPlaying,
     pending |-> Cardinality(timeouts)]

\* the machine m becomes the state, op being the operation that produced it
Becomes(m, op) ==
    /\ words' = m.words
    /\ currentIndex' = m.currentIndex
    /\ isPlaying' = m.isPlaying
    /\ timer' = m.timer
    /\ expectedTime' = m.expectedTime
    /\ hooks' = m.hooks
    /\ settingsWpm' = m.settingsWpm
    /\ timeouts' = m.timeouts
    /\ now' = m.now
    /\ emitted' = m.emitted
    /\ lastOp' = op
    /\ query' = query
    /\ playPauseBtn' = m.playPauseBtn
    /\ readerViewHidden' = m.readerViewHidden
    /\ stored' = m.stored

\* no method has been called directly
NoQuery == [fn |-> "none"]

\* the Reader object literal, no hook set, the default settings, saved by
\* an earlier session, and the page as loaded: the input view visible, the
\* button labelled Play
Init ==
    /\ words = <<>>
    /\ currentIndex = 0
    /\ isPlaying = FALSE
    /\ timer = NULL
    /\ expectedTime = 0
    /\ hooks = {}
    /\ settingsWpm = 300
    /\ timeouts = {}
    /\ now = 0
    /\ emitted = <<>>
    /\ lastOp = [op |-> "new", from |-> From]
    /\ query = NoQuery
    /\ playPauseBtn = "Play"
    /\ readerViewHidden = TRUE
    /\ stored = Saved(300)

CallInit(text) ==
    Becomes(init(Machine, text), [op |-> "init", text |-> text, from |-> From])

CallPlay == Becomes(play(Machine), [op |-> "play", from |-> From])

CallPause == Becomes(pause(Machine), [op |-> "pause", from |-> From])

CallStop == Becomes(stop(Machine), [op |-> "stop", from |-> From])

CallRestart == Becomes(restart(Machine), [op |-> "restart", from |-> From])

CallGoToEnd == Becomes(goToEnd(Machine), [op |-> "goToEnd", from |-> From])

CallDisplayWordAt(index) ==
    Becomes(displayWordAt(Machine, index, settingsWpm),
            [op |-> "displayWordAt", index |-> index, from |-> From])

CallSetupReaderCallbacks ==
    /\ hooks = {}
    /\ Becomes(setupReaderCallbacks(Machine), [op |-> "setupReaderCallbacks", from |-> From])

CallUpdateWPM(value) ==
    /\ value # settingsWpm
    /\ Becomes(updateWPM(Machine, value), [op |-> "updateWPM", from |-> From])

\* the host runs the callback of a timeout that is due; timeouts fire in the
\* order of their due times and never early
TimerFire(t) ==
    /\ t \in timeouts
    /\ now >= t.due
    /\ \A u \in timeouts : t.due <= u.due
    /\ Becomes(timerCallback([Machine EXCEPT !.timeouts = @ \ {t}]),
               [op |-> "timer", from |-> From])

\* time passes
Elapse(d) ==
    /\ now + d <= MaxTime
    /\ now' = now + d
    /\ UNCHANGED <<words, currentIndex, isPlaying, timer, expectedTime, hooks,
                   settingsWpm, timeouts, emitted, lastOp, query,
                   playPauseBtn, readerViewHidden, stored>>

\* the indexes displayWordAt is called with
SeekIndexes == (-1)..(Len(words) + 1)

Next ==
    \/ \E text \in Texts : CallInit(text)
    \/ CallPlay
    \/ CallPause
    \/ CallStop
    \/ CallRestart
    \/ CallGoToEnd
    \/ \E index \in SeekIndexes : CallDisplayWordAt(index)
    \/ CallSetupReaderCallbacks
    \/ \E value \in Rates : CallUpdateWPM(value)
    \/ \E t \in timeouts : TimerFire(t)
    \/ \E d \in ElapseSteps : Elapse(d)

Spec == Init /\ [][Next]_vars

-----------------------------------------------------------------------------
(* Direct calls of the methods that compute a value from their arguments   *)
(* only: the Reader stays as constructed, query holds the call.            *)

\* the first n characters of a run of letters and digits
Run(n) ==
    [k \in 1..n |-> <<"a", "b", "1", "c", "d", "2", "e">>[((k - 1) % 7) + 1]]

\* the punctuation a token ends with
TrailChars ==
    {".", "!", "?", ",", ";", ":", "-", EmDash, "'", "\"", ")", "]",
     RightQuote, "_"}

Trails == UNION {[1..k -> TrailChars] : k \in 0..MaxTrail}

\* the tokens the word methods are called with: a run of letters and digits
\* of every length up to MaxRun between some punctuation, every ending of
\* at most MaxTrail punctuation characters after a short run, and words with
\* punctuation inside
Tokens ==
    {pre \o Run(n) \o post :
        pre \in {<<>>, <<"(">>, <<"\"">>}, n \in 0..MaxRun,
        post \in {<<>>, <<".">>, <<"_">>, <<",", "\"">>}}
    \cup {Run(n) \o post : n \in 0..1, post \in Trails}
    \cup {<<"a", "_", "b">>, <<"i", "t", "'", "s">>, <<"a", "-", "b">>}

\* the rates the methods are called with
QueryRates == Rates \cup BadRates

\* the lengths of the sequences whose progress is reported
Lengths == (0..SmallWords) \cup {MaxWords}

\* the texts parseText is called with
QueryTexts == Texts \cup Samples

\* the machine of the Reader object literal, the default settings, saved
\* by an earlier session, and the page as loaded
Blank ==
    [words |-> <<>>, currentIndex |-> 0, isPlaying |-> FALSE, timer |-> NULL,
     expectedTime |-> 0, hooks |-> {}, settingsWpm |-> 300, timeouts |-> {},
     now |-> 0, emitted |-> <<>>, playPauseBtn |-> "Play",
     readerViewHidden |-> TRUE, stored |-> Saved(300)]

\* the machine m is the state
Is(m) ==
    /\ words = m.words
    /\ currentIndex = m.currentIndex
    /\ isPlaying = m.isPlaying
    /\ timer = m.timer
    /\ expectedTime = m.expectedTime
    /\ hooks = m.hooks
    /\ settingsWpm = m.settingsWpm
    /\ timeouts = m.timeouts
    /\ now = m.now
    /\ emitted = m.emitted
    /\ playPauseBtn = m.playPauseBtn
    /\ readerViewHidden = m.readerViewHidden
    /\ stored = m.stored

\* a call about to be made with the arguments args
Asked(args) == [fn |-> "none", args |-> args]

InitQuery ==
    /\ Is(Blank)
    /\ lastOp = [op |-> "new", from |-> From]
    /\ \/ query \in {Asked([word |-> w]) : w \in Tokens}
       \/ query \in {Asked([word |-> w, wpm |-> r]) : w \in Tokens, r \in QueryRates}
       \/ query \in {Asked(a) :
                        a \in {b \in [totalWords : Lengths, index : 0..MaxWords,
                                      wpm : QueryRates] :
                                  b.index <= b.totalWords}}
       \/ query \in {Asked([text |-> t]) : t \in QueryTexts}

\* the call fn is made with the arguments asked and returns result
Returns(fn, result) ==
    /\ query.fn = "none"
    /\ query' = [fn |-> fn, args |-> query.args, result |-> result]
    /\ UNCHANGED <<words, currentIndex, isPlaying, timer, expectedTime, hooks,
                   settingsWpm, timeouts, now, emitted, lastOp,
                   playPauseBtn, readerViewHidden, stored>>

\* a number of milliseconds n; 60000 / wpm is Infinity when wpm is 0, and
\* so is the duration
Number(n) == [finite |-> TRUE, ms |-> n]
Infinity == [finite |-> FALSE, ms |-> 0]

CallGetORPIndex ==
    /\ DOMAIN query.args = {"word"}
    /\ Returns("getORPIndex", getORPIndex(query.args.word))

CallSplitWord ==
    /\ DOMAIN query.args = {"word"}
    /\ Returns("splitWord", splitWord(query.args.word))

CallGetWordDuration ==
    /\ DOMAIN query.args = {"word", "wpm"}
    /\ Returns("getWordDuration",
               IF query.args.wpm = 0 THEN Infinity
               ELSE Number(getWordDuration(query.args.word, query.args.wpm)))

\* getProgress(wpm) on a Reader with totalWords words at index
CallGetProgress ==
    /\ DOMAIN query.args = {"totalWords", "index", "wpm"}
    /\ Returns("getProgress",
               getProgress(query.args.totalWords, query.args.index, query.args.wpm))

CallParseText ==
    /\ DOMAIN query.args = {"text"}
    /\ Returns("parseText", parseText(query.args.text))

NextQuery ==
    \/ CallGetORPIndex
    \/ CallSplitWord
    \/ CallGetWordDuration
    \/ CallGetProgress
    \/ CallParseText

SpecQuery == InitQuery /\ [][NextQuery]_vars

-----------------------------------------------------------------------------
(* Uninterrupted playback: a text is loaded, play() is called at index 0   *)
(* and then only timeouts fire, time passes and the rate setting changes.  *)

\* App.init installs the hooks, the stored rate is rate, and text is loaded
Loaded(text, rate) ==
    init(setupReaderCallbacks([Blank EXCEPT !.settingsWpm = rate,
                                            !.stored = Saved(rate)]), text)

InitPlayback ==
    \E text \in Texts \cup Samples, rate \in Rates :
        /\ Is(Loaded(text, rate))
        /\ lastOp = [op |-> "init", text |-> text, from |-> From]
        /\ query = NoQuery

PlayFromStart ==
    /\ currentIndex = 0
    /\ ~isPlaying
    /\ CallPlay

\* the time at which the next timeout is due
NextDue == CHOOSE d \in {t.due : t \in timeouts} : \A t \in timeouts : d <= t.due

\* time passes until the next timeout is due, and no longer
WaitUntilDue ==
    /\ timeouts # {}
    /\ now < NextDue
    /\ now' = NextDue
    /\ UNCHANGED <<words, currentIndex, isPlaying, timer, expectedTime, hooks,
                   settingsWpm, timeouts, emitted, lastOp, query,
                   playPauseBtn, readerViewHidden, stored>>

\* every timeout's callback runs at the moment the timeout is due
NextOnTime ==
    \/ PlayFromStart
    \/ \E value \in Rates : CallUpdateWPM(value)
    \/ \E t \in timeouts : TimerFire(t)
    \/ WaitUntilDue

SpecOnTime == InitPlayback /\ [][NextOnTime]_vars

\* time passes while a timeout is pending and not later than MaxLatency
\* after it is due
ElapseLate(d) ==
    /\ timeouts # {}
    /\ now + d <= NextDue + MaxLatency
    /\ now' = now + d
    /\ UNCHANGED <<words, currentIndex, isPlaying, timer, expectedTime, hooks,
                   settingsWpm, timeouts, emitted, lastOp, query,
                   playPauseBtn, readerViewHidden, stored>>

NextLate ==
    \/ PlayFromStart
    \/ \E value \in Rates : CallUpdateWPM(value)
    \/ \E t \in timeouts : TimerFire(t)
    \/ \E d \in ElapseSteps : ElapseLate(d)

\* a timeout is due: the host can run its callback
TimerDue == \E t \in timeouts : now >= t.due

\* the host's clock advances, and the host runs the callback of a timeout
\* that is due: weak fairness of ElapseLate and of TimerFire, the latter
\* written out with TimerDue for its enabledness
SpecFair ==
    /\ InitPlayback
    /\ [][NextLate]_vars
    /\ WF_vars(\E d \in ElapseSteps : ElapseLate(d))
    /\ \/ []<>(~TimerDue)
       \/ []<><<\E t \in timeouts : TimerFire(t)>>_vars

-----------------------------------------------------------------------------
(* The application (App and Storage of src/js/storage.js): the page is     *)
(* loaded with some settings item in localStorage, and then the user       *)
(* clicks the buttons of the visible view, presses keys and moves the rate *)
(* slider, while time passes and timeouts fire.                            *)

\* rates a settings item may hold that the slider does not offer
StoredRates == {2000, -300}

\* the settings items localStorage may hold when the page is first loaded
StoredItems == {NoItem} \cup {Saved(r) : r \in StoredRates}

\* a text made of URLs only
OnlyUrlsText ==
    <<"h", "t", "t", "p", "s", ":", "/", "/", "x", ".", "y", " ", "w", "w",
      "w", ".", "z">>

\* the texts typed or pasted into the textarea, or read from the clipboard:
\* a blank, a citation marker, URLs, and two words on two lines
AppTexts ==
    {Corpus[1], Corpus[2], OnlyUrlsText, Corpus[3] \o Corpus[4]}

\* the keys pressed, and the elements that have the focus
Keys == {" ", "r", "Home", "e", "End", "Escape", "a"}
Targets == {"BODY", "TEXTAREA"}
KeyEvents == [key : Keys, target : Targets]

\* Storage.getSettings(): the rate of { ...DEFAULT_SETTINGS, ...stored }
getSettings(item) ==
    IF item.present THEN item.wpm ELSE 300

\* App.loadSettings
loadSettings(m) ==
    [m EXCEPT !.settingsWpm = getSettings(m.stored)]

\* App.init: the settings are loaded and the hooks set
App_init(m) ==
    setupReaderCallbacks(loadSettings(m))

\* App.showReaderView
showReaderView(m) ==
    [m EXCEPT !.readerViewHidden = FALSE]

\* showInputView without the call of Reader.stop
showInputView_noStop(m) ==
    [updatePlayPauseButton(m, FALSE) EXCEPT !.readerViewHidden = TRUE]

\* App.showInputView
showInputView(m) ==
    [updatePlayPauseButton(stop(m), FALSE) EXCEPT !.readerViewHidden = TRUE]

\* App.startReading, value being the value of the textarea
startReading(m, value) ==
    LET text == trim(value)
    IN  IF text = <<>> THEN m
        ELSE displayWordAt(showReaderView(init(m, text)), 0, m.settingsWpm)

\* App.startReadingDirect(text)
startReadingDirect(m, text) ==
    IF text = <<>> \/ trim(text) = <<>> THEN m
    ELSE displayWordAt(showReaderView(init(m, text)), 0, m.settingsWpm)

\* App.togglePlayPause
togglePlayPause(m) ==
    IF m.isPlaying
    THEN updatePlayPauseButton(pause(m), FALSE)
    ELSE updatePlayPauseButton(play(m), TRUE)

\* App.restart
App_restart(m) ==
    displayWordAt(updatePlayPauseButton(restart(m), FALSE), 0, m.settingsWpm)

\* App.goToEnd
App_goToEnd(m) ==
    updatePlayPauseButton(goToEnd(m), FALSE)

\* App.handleKeyboard(e)
handleKeyboard(m, e) ==
    IF m.readerViewHidden THEN m
    ELSE IF e.target \in {"INPUT", "TEXTAREA"} THEN m
    ELSE CASE e.key = " "                   -> togglePlayPause(m)
           [] e.key \in {"Home", "r", "R"}  -> App_restart(m)
           [] e.key \in {"End", "e", "E"}   -> App_goToEnd(m)
           [] e.key = "Escape"              -> showInputView(m)
           [] OTHER                         -> m

\* the page is loaded, localStorage holding item: a new Reader, no timeout,
\* the input view visible, the button labelled Play; the time is counted
\* from the load of the page
PageOf(item) == App_init([Blank EXCEPT !.stored = item])

\* what App.init finds: the Reader object literal
Loading == [op |-> "App.init", from |-> [currentIndex |-> 0, isPlaying |-> FALSE, pending |-> 0]]

InitApp ==
    \E item \in StoredItems :
        /\ Is(PageOf(item))
        /\ lastOp = Loading
        /\ query = NoQuery

\* the page is loaded again, with the settings item saved last
PageLoad ==
    /\ lastOp.op # "App.init"
    /\ Becomes(PageOf(stored), Loading)

\* checkBookmarkletData: the page was opened by the bookmarklet and the text
\* of the clipboard is read
BookmarkletStart(text) ==
    /\ lastOp.op = "App.init"
    /\ Becomes(startReadingDirect(Machine, text),
               [op |-> "App.startReadingDirect", text |-> text, from |-> From])

\* the buttons of the input view are clicked while it is the visible view,
\* those of the reader view while the reader view is
ClickStart(text) ==
    /\ readerViewHidden
    /\ Becomes(startReading(Machine, text),
               [op |-> "App.startReading", text |-> text, from |-> From])

ClickPlayPause ==
    /\ ~readerViewHidden
    /\ Becomes(togglePlayPause(Machine), [op |-> "App.togglePlayPause", from |-> From])

ClickRestart ==
    /\ ~readerViewHidden
    /\ Becomes(App_restart(Machine), [op |-> "App.restart", from |-> From])

ClickEnd ==
    /\ ~readerViewHidden
    /\ Becomes(App_goToEnd(Machine), [op |-> "App.goToEnd", from |-> From])

ClickBack ==
    /\ ~readerViewHidden
    /\ Becomes(showInputView(Machine), [op |-> "App.showInputView", from |-> From])

\* a key is pressed, in either view
KeyDown(e) ==
    Becomes(handleKeyboard(Machine, e),
            [op |-> "App.handleKeyboard", key |-> e.key, target |-> e.target,
             hidden |-> readerViewHidden, from |-> From])

NextApp ==
    \/ PageLoad
    \/ \E text \in AppTexts : BookmarkletStart(text)
    \/ \E text \in AppTexts : ClickStart(text)
    \/ ClickPlayPause
    \/ ClickRestart
    \/ ClickEnd
    \/ ClickBack
    \/ \E e \in KeyEvents : KeyDown(e)
    \/ \E value \in Rates : CallUpdateWPM(value)
    \/ \E t \in timeouts : TimerFire(t)
    \/ \E d \in ElapseSteps : Elapse(d)

SpecApp == InitApp /\ [][NextApp]_vars

-----------------------------------------------------------------------------
(* Properties *)

\* the timeouts whose callback has yet to run: the pending steps
PendingSteps == Cardinality(timeouts)

\* some timeout's callback runs in this step
TimerFires == \E t \in timeouts : TimerFire(t)

\* the operations that cancel the pending step
CancelOps == {"pause", "stop", "restart", "goToEnd", "init"}

\* the rate a playback step pulls
PulledRate == IF "getWPM" \in hooks THEN settingsWpm ELSE 300

\* the hook invocations that display the word at index with the given rate,
\* for the hooks that are set
Display(index, wpm) ==
    SelectSeq(<< WordChange(splitWord(words[index + 1])),
                 Progress(getProgress(Len(words), index, wpm)) >>,
              LAMBDA call : call.hook \in hooks)

\* the number of invocations of the completion hook by the last operation
Completions == Len(SelectSeq(emitted, LAMBDA call : call.hook = "onComplete"))

IsBlank(text) == \A k \in 1..Len(text) : text[k] \in Whitespace

\* C1: in every reachable state the playback position lies between 0 and the
\* number of tokens, both included.
C1_IndexInRange == 0 <= currentIndex /\ currentIndex <= Len(words)

\* a timer callback has moved the index of a non-empty sequence to the
\* terminal position
C1_Witness ==
    /\ lastOp.op = "timer"
    /\ Len(words) >= 2
    /\ currentIndex = Len(words)

\* C2: at most one scheduled step is pending at any instant.
C2_AtMostOnePending == PendingSteps <= 1

\* a timer callback has run and has scheduled the following step
C2_Witness ==
    /\ lastOp.op = "timer"
    /\ lastOp.from.pending = 1
    /\ PendingSteps = 1

\* C3: after pause, stop, restart, goToEnd or init no step is pending and the
\* engine is not playing, and no timer callback runs while the engine is not
\* playing, that is before play is called again.
C3_CancelledNeverFires ==
    /\ [](lastOp.op \in CancelOps => timeouts = {} /\ ~isPlaying)
    /\ [][~isPlaying => ~TimerFires]_vars

\* pause has cancelled a pending step and the time at which that step was due
\* has passed
C3_Witness ==
    /\ lastOp.op = "pause"
    /\ lastOp.from.isPlaying
    /\ lastOp.from.pending = 1
    /\ now >= expectedTime + 100
    /\ timeouts = {}

\* C4: every timer firing increases the index by exactly 1, and the engine
\* stops playing in the firing that brings the index to the number of tokens
\* and in no other.
C4_StepByOne ==
    [][TimerFires =>
        /\ currentIndex' = currentIndex + 1
        /\ isPlaying' = (currentIndex' < Len(words))]_vars

\* an uninterrupted step has brought the index from the last token to the
\* terminal position
C4_Witness ==
    /\ lastOp.op = "timer"
    /\ Len(words) >= 2
    /\ lastOp.from.currentIndex = Len(words) - 1
    /\ currentIndex = Len(words)
    /\ ~isPlaying

\* C5: an operation invokes the completion hook at most once; it is invoked
\* only by a playback step (a timer callback, or the step play runs itself)
\* that finds the index at the number of tokens, every such step invokes it
\* when it is set, and after it the engine is stopped with no step pending.
C5_CompleteOnce ==
    /\ Completions <= 1
    /\ Completions = 1 =>
          /\ lastOp.op \in {"timer", "play"}
          /\ currentIndex = Len(words)
          /\ ~isPlaying
          /\ timeouts = {}
    /\ lastOp.op \notin {"timer", "play"} => Completions = 0
    /\ (lastOp.op = "timer" /\ currentIndex = Len(words) /\ "onComplete" \in hooks)
          => Completions = 1

\* the step after the last token of a non-empty sequence has invoked the hook
C5_Witness ==
    /\ lastOp.op = "timer"
    /\ Len(words) >= 2
    /\ currentIndex = Len(words)
    /\ emitted = <<Complete>>

\* C6: init leaves the tokens of its text, index 0, the engine not playing and
\* no step pending, and a play that follows it plays the first token of that
\* text.
C6_InitResets ==
    /\ [](lastOp.op = "init" =>
            /\ words = parseText(lastOp.text)
            /\ currentIndex = 0
            /\ ~isPlaying
            /\ timeouts = {})
    /\ [][(lastOp.op = "init" /\ CallPlay /\ Len(words) > 0) =>
            /\ currentIndex' = 0
            /\ isPlaying'
            /\ emitted' = Display(0, PulledRate)]_vars

\* init was called in the middle of a playback, with a step pending
C6_Witness ==
    /\ lastOp.op = "init"
    /\ lastOp.from.isPlaying
    /\ lastOp.from.pending = 1
    /\ lastOp.from.currentIndex > 0
    /\ Len(words) > 0

\* C7: init with an empty or whitespace-only text leaves no token, index 0
\* and the engine not playing; and whenever there is no token, whatever
\* operation was performed, the index is 0 and the engine is not playing.
C7_EmptyText ==
    /\ (lastOp.op = "init" /\ IsBlank(lastOp.text)) => words = <<>>
    /\ words = <<>> => (currentIndex = 0 /\ ~isPlaying /\ timeouts = {})

\* init was called with a whitespace-only text while a non-empty sequence was
\* playing
C7_Witness ==
    /\ lastOp.op = "init"
    /\ lastOp.text # <<>>
    /\ IsBlank(lastOp.text)
    /\ lastOp.from.isPlaying
    /\ lastOp.from.currentIndex > 0

\* C8: play called while the engine is playing changes nothing of the engine
\* (tokens, index, mode, anchor, timer, pending step) and invokes no hook.
C8_PlayWhilePlaying ==
    [][(isPlaying /\ CallPlay) =>
        /\ UNCHANGED <<words, currentIndex, isPlaying, timer, expectedTime, timeouts>>
        /\ emitted' = <<>>]_vars

\* play was called while playing, after the clock had moved past the anchor
\* set by the first play
C8_Witness ==
    /\ lastOp.op = "play"
    /\ lastOp.from.isPlaying
    /\ lastOp.from.pending = 1
    /\ PendingSteps = 1
    /\ currentIndex > 0

\* C9: play called at the terminal position of a non-empty sequence, the
\* engine not playing, sets the index to 0, sets the engine playing with one
\* step pending and displays the first token.
C9_PlayWraps ==
    (/\ lastOp.op = "play"
     /\ ~lastOp.from.isPlaying
     /\ Len(words) > 0
     /\ lastOp.from.currentIndex = Len(words))
    => /\ currentIndex = 0
       /\ isPlaying
       /\ PendingSteps = 1
       /\ emitted = Display(0, PulledRate)

\* play was called after a completed playback, with the hooks set
C9_Witness ==
    /\ lastOp.op = "play"
    /\ ~lastOp.from.isPlaying
    /\ Len(words) >= 2
    /\ lastOp.from.currentIndex = Len(words)
    /\ Len(emitted) = 2

\* C10: play called while the engine is not playing and the index is below
\* the number of tokens sets the engine playing, invokes the word and progress
\* hooks that are set for the token at the index, leaves the index where it
\* was, and leaves the step that will advance it pending.
C10_PlayDisplaysNow ==
    (/\ lastOp.op = "play"
     /\ ~lastOp.from.isPlaying
     /\ lastOp.from.currentIndex < Len(words))
    => /\ isPlaying
       /\ currentIndex = lastOp.from.currentIndex
       /\ emitted = Display(currentIndex, PulledRate)
       /\ PendingSteps = 1

\* play was called on a paused engine in the middle of the sequence, with the
\* hooks set, and no time has passed since
C10_Witness ==
    /\ lastOp.op = "play"
    /\ ~lastOp.from.isPlaying
    /\ lastOp.from.currentIndex > 0
    /\ lastOp.from.currentIndex < Len(words)
    /\ Len(emitted) = 2
    /\ now = expectedTime - getWordDuration(words[currentIndex + 1], PulledRate)

\* the hook invocations that report the progress at index alone
ProgressOnly(index, wpm) ==
    SelectSeq(<< Progress(getProgress(Len(words), index, wpm)) >>,
              LAMBDA call : call.hook \in hooks)

\* the last operation invoked the hook h
Invoked(h) == \E k \in 1..Len(emitted) : emitted[k].hook = h

\* C11: pause called while the engine is playing leaves no step pending and
\* the engine not playing and changes neither the index nor the tokens; a play
\* that follows it displays the token at that index and leaves the index
\* there.
C11_PauseKeepsPosition ==
    /\ [][(isPlaying /\ CallPause) =>
            /\ ~isPlaying'
            /\ timeouts' = {}
            /\ UNCHANGED <<words, currentIndex>>]_vars
    /\ [][(lastOp.op = "pause" /\ lastOp.from.isPlaying /\ CallPlay) =>
            /\ isPlaying'
            /\ currentIndex' = currentIndex
            /\ currentIndex' = lastOp.from.currentIndex
            /\ emitted' = Display(currentIndex, PulledRate)]_vars

\* pause has stopped a playback in the middle of the sequence
C11_Witness ==
    /\ lastOp.op = "pause"
    /\ lastOp.from.isPlaying
    /\ lastOp.from.pending = 1
    /\ currentIndex > 0
    /\ currentIndex < Len(words)
    /\ timeouts = {}

\* C12: a pause that follows a pause changes nothing of the engine (tokens,
\* index, mode, timer, anchor, pending step) and invokes no hook.
C12_PauseIdempotent ==
    [][(lastOp.op = "pause" /\ CallPause) =>
        /\ UNCHANGED <<words, currentIndex, isPlaying, timer, expectedTime, timeouts>>
        /\ emitted' = <<>>]_vars

\* pause was called on an engine that was already paused in the middle of
\* the sequence
C12_Witness ==
    /\ lastOp.op = "pause"
    /\ ~lastOp.from.isPlaying
    /\ lastOp.from.pending = 0
    /\ timer = NULL
    /\ currentIndex > 0
    /\ currentIndex < Len(words)

\* C13: after stop no step is pending, the index is 0, the engine is not
\* playing, and stop has invoked no hook.
C13_StopResets ==
    lastOp.op = "stop" =>
        /\ timeouts = {}
        /\ currentIndex = 0
        /\ ~isPlaying
        /\ emitted = <<>>

\* stop was called in the middle of a playback, with a step pending
C13_Witness ==
    /\ lastOp.op = "stop"
    /\ lastOp.from.isPlaying
    /\ lastOp.from.pending = 1
    /\ lastOp.from.currentIndex > 0

\* C14: after restart no step is pending, the index is 0 and the engine is
\* not playing; restart has invoked the word and progress hooks for index 0
\* when there is a token, and no hook when there is none.
C14_RestartEmits ==
    lastOp.op = "restart" =>
        /\ timeouts = {}
        /\ currentIndex = 0
        /\ ~isPlaying
        /\ emitted = IF Len(words) > 0 THEN Display(0, 300) ELSE <<>>

\* C15 (as stated): after goToEnd no step is pending, the index is that of the
\* last token (0 when there is none), the engine is not playing, and goToEnd
\* has invoked the word hook and the progress hook, each when set, and not
\* the completion hook.
C15_GoToEndEmitsBoth ==
    lastOp.op = "goToEnd" =>
        /\ timeouts = {}
        /\ currentIndex = Max(0, Len(words) - 1)
        /\ ~isPlaying
        /\ "onWordChange" \in hooks => Invoked("onWordChange")
        /\ "onProgress" \in hooks => Invoked("onProgress")
        /\ ~Invoked("onComplete")

\* C15 (amended): after goToEnd no step is pending, the index is that of the
\* last token (0 when there is none), the engine is not playing, and goToEnd
\* has invoked the progress hook for that index, preceded by the word hook
\* for the token at that index when there is a token, and nothing else.
C15_GoToEnd ==
    lastOp.op = "goToEnd" =>
        /\ timeouts = {}
        /\ currentIndex = Max(0, Len(words) - 1)
        /\ ~isPlaying
        /\ emitted = IF Len(words) > 0 THEN Display(currentIndex, 300)
                     ELSE ProgressOnly(0, 300)

\* goToEnd was called in the middle of a playback, with the hooks set
C15_Witness ==
    /\ lastOp.op = "goToEnd"
    /\ lastOp.from.isPlaying
    /\ lastOp.from.pending = 1
    /\ Len(words) >= 2
    /\ lastOp.from.currentIndex < Len(words) - 1
    /\ Len(emitted) = 2

\* the last call of displayWordAt had an index within the sequence
SeekInRange == 0 <= lastOp.index /\ lastOp.index < Len(words)

\* C16: displayWordAt with an index within the sequence sets the index to it
\* and invokes the word and progress hooks for that token; with an index out
\* of the sequence it leaves the index and invokes no hook; in both cases the
\* mode is left as it was.
C16_Seek ==
    lastOp.op = "displayWordAt" =>
        /\ isPlaying = lastOp.from.isPlaying
        /\ IF SeekInRange
           THEN /\ currentIndex = lastOp.index
                /\ emitted = Display(lastOp.index, settingsWpm)
           ELSE /\ currentIndex = lastOp.from.currentIndex
                /\ emitted = <<>>

\* displayWordAt(-1) was called in the middle of a playback
C16_Witness ==
    /\ lastOp.op = "displayWordAt"
    /\ lastOp.index = -1
    /\ lastOp.from.isPlaying
    /\ currentIndex > 0
    /\ "onWordChange" \in hooks

\* C17: displayWordAt called with an index within the sequence while a step
\* is pending leaves no step pending.
C17_SeekCancels ==
    (lastOp.op = "displayWordAt" /\ SeekInRange /\ lastOp.from.pending > 0)
        => timeouts = {}

\* C18: when the word and progress hooks are set, every invocation of the
\* word hook by an operation is for the token at the index the operation
\* leaves, and is followed at once by one invocation of the progress hook,
\* reporting that index, and not by a second one.
C18_WordThenProgress ==
    {"onWordChange", "onProgress"} \subseteq hooks =>
        \A k \in 1..Len(emitted) :
            emitted[k].hook = "onWordChange" =>
                /\ currentIndex < Len(words)
                /\ emitted[k].arg = splitWord(words[currentIndex + 1])
                /\ k + 1 <= Len(emitted)
                /\ emitted[k + 1].hook = "onProgress"
                /\ emitted[k + 1].arg.currentWord = currentIndex + 1
                /\ emitted[k + 1].arg.totalWords = Len(words)
                /\ k + 2 <= Len(emitted) => emitted[k + 2].hook # "onProgress"

\* a playback step has displayed a token after the first
C18_Witness ==
    /\ lastOp.op = "timer"
    /\ isPlaying
    /\ currentIndex >= 1
    /\ Len(emitted) = 2
    /\ emitted[1].hook = "onWordChange"

\* C19: every playback step (the one play runs, and every timer callback
\* that finds a token) advances the anchor by the duration of its token at
\* the rate the hook returns at that step (300 when the hook is not set) and
\* reports the progress at that rate; a change of the rate leaves the index,
\* the mode, the anchor and the pending timeout as they are.
C19_RatePulledPerStep ==
    /\ [][(TimerFires /\ isPlaying') =>
            /\ expectedTime' = expectedTime
                  + getWordDuration(words[currentIndex' + 1], PulledRate)
            /\ emitted' = Display(currentIndex', PulledRate)]_vars
    /\ [][(~isPlaying /\ CallPlay /\ isPlaying') =>
            /\ expectedTime' = now
                  + getWordDuration(words[currentIndex' + 1], PulledRate)
            /\ emitted' = Display(currentIndex', PulledRate)]_vars
    /\ [][(\E value \in Rates : CallUpdateWPM(value)) =>
            UNCHANGED <<words, currentIndex, isPlaying, timer, expectedTime,
                        timeouts>>]_vars

\* the rate was changed while a word was displayed and its step pending
C19_Witness ==
    /\ lastOp.op = "updateWPM"
    /\ "getWPM" \in hooks
    /\ isPlaying
    /\ PendingSteps = 1
    /\ settingsWpm = 600
    /\ currentIndex + 1 < Len(words)

\* C20: a timer callback that finds a token sets one timeout, due after
\* max(0, duration - drift) with drift = now - anchor, and advances the anchor
\* by the duration; the delay is never negative; and when the callback runs L
\* after its timeout was due, that timeout having been due at the anchor, the
\* delay is the duration less L, or 0 when L exceeds it.
C20_DriftCorrectedDelay ==
    [][\A t \in timeouts : (TimerFire(t) /\ isPlaying') =>
        LET duration == getWordDuration(words[currentIndex' + 1], PulledRate)
            drift == now - expectedTime
            late == now - t.due
        IN  /\ expectedTime' = expectedTime + duration
            /\ \E u \in timeouts' :
                  /\ timeouts' = {u}
                  /\ u.due - now = Max(0, duration - drift)
                  /\ u.due - now >= 0
                  /\ t.due = expectedTime => u.due - now = Max(0, duration - late)]_vars

\* a step ran so late that the delay of the next one was clamped at 0
C20_Witness ==
    /\ lastOp.op = "timer"
    /\ isPlaying
    /\ \E u \in timeouts : u.due > expectedTime /\ u.due <= now

-----------------------------------------------------------------------------
(* Properties of the word, progress and text methods (SpecQuery)           *)

\* the letters and digits of a word, in order
Alphanumeric(word) == SelectSeq(word, LAMBDA c : c \in Letters \cup Digits)

\* C21: for every token, the highlight offset getORPIndex computes is 0 when
\* the token has at most one alphanumeric character, 1 when it has two or
\* three, and floor((length - 1) / 2) when it has more than three.
C21_MiddleLetter ==
    query.fn = "getORPIndex" =>
        LET length == Len(Alphanumeric(query.args.word))
        IN  query.result = IF length <= 1 THEN 0
                           ELSE IF length <= 3 THEN 1
                           ELSE (length - 1) \div 2

\* C22: for every token, the parts splitWord returns concatenate to the token
\* with every non-alphanumeric character removed, before has exactly offset
\* characters, highlight is one character when the cleaned token is not empty,
\* and all three parts are empty for a token without alphanumeric character.
C22_SplitPartition ==
    query.fn = "splitWord" =>
        LET clean == Alphanumeric(query.args.word)
            parts == query.result
        IN  /\ parts.before \o parts.highlight \o parts.after = clean
            /\ Len(parts.before) = getORPIndex(query.args.word)
            /\ clean # <<>> => Len(parts.highlight) = 1
            /\ clean = <<>> =>
                   parts = [before |-> <<>>, highlight |-> <<>>, after |-> <<>>]

\* the closing quotes and the closing brackets
Closers == {"'", "\"", RightQuote, ")", "]"}

\* the word without the closing quotes and brackets at its end
RECURSIVE Significant(_)
Significant(word) ==
    IF word # <<>> /\ word[Len(word)] \in Closers
    THEN Significant(Sub(word, 1, Len(word) - 1))
    ELSE word

\* the last significant character of a word, "" when there is none
LastSignificant(word) ==
    LET s == Significant(word) IN IF s = <<>> THEN "" ELSE s[Len(s)]

\* the multiplier of the table of punctuation delays, in tenths
TableMultiplier10(word) ==
    LET c == LastSignificant(word)
    IN  IF c \in {".", "!", "?"} THEN 20
        ELSE IF c \in {",", ";", ":"} THEN 15
        ELSE IF c = "-" THEN 12
        ELSE 10

\* C23: for every token and every supported rate, the duration is 60000 / wpm
\* times the multiplier of the token's last character once the closing quotes
\* and brackets at its end are stripped: 2.0 for . ! ?, 1.5 for , ; :, 1.2 for
\* a hyphen, 1.0 for any other character and for a token with nothing left.
C23_DurationTable ==
    (query.fn = "getWordDuration" /\ query.args.wpm \in Rates) =>
        /\ query.result.finite
        /\ query.result.ms * 10 * query.args.wpm
               = 60000 * TableMultiplier10(query.args.word)

\* C24: a token whose last significant character is an em dash is displayed
\* for 1.3 times the base duration 60000 / wpm.
C24_EmDash ==
    (/\ query.fn = "getWordDuration"
     /\ query.args.wpm \in Rates
     /\ LastSignificant(query.args.word) = EmDash) =>
        /\ query.result.finite
        /\ query.result.ms * 10 * query.args.wpm = 60000 * 13

\* the integer nearest to num / den, the upper one of two (num >= 0, den > 0)
Nearest(num, den) ==
    CHOOSE n \in 0..(num + 1) :
        2 * den * n <= 2 * num + den /\ 2 * num + den < 2 * den * (n + 1)

\* C26: every progress report has the percentage round(100 * currentIndex /
\* words.length), 0 for an empty sequence and always within 0..100, the total
\* words.length, and as remaining time (words.length - currentIndex) / rate *
\* 60 seconds, rounded to the second.
C26_Progress ==
    query.fn = "getProgress" =>
        LET a == query.args
            r == query.result
        IN  /\ r.percentage = IF a.totalWords = 0 THEN 0
                              ELSE Nearest(100 * a.index, a.totalWords)
            /\ r.percentage \in 0..100
            /\ r.totalWords = a.totalWords
            /\ a.wpm > 0 =>
                   /\ r.remainingTime.finite
                   /\ 60 * r.remainingTime.mins + r.remainingTime.secs
                          = Nearest((a.totalWords - a.index) * 60, a.wpm)

\* a report in the middle of a sequence whose percentage is rounded up
C26_Witness ==
    /\ query.fn = "getProgress"
    /\ query.args = [totalWords |-> 8, index |-> 3, wpm |-> 300]
    /\ query.result.percentage = 38
    /\ query.result.remainingTime = [finite |-> TRUE, mins |-> 0, secs |-> 1]

\* C27: for every non-negative remaining time the text formatTime returns has
\* the minutes and the seconds of the time rounded to the second, the seconds
\* within 00..59: seconds that round up to 60 are shown as one more minute
\* and 00 seconds.
C27_SecondsRollOver ==
    (query.fn = "getProgress" /\ query.args.wpm > 0) =>
        LET a == query.args
            time == query.result.remainingTime
            total == Nearest((a.totalWords - a.index) * 60, a.wpm)
        IN  /\ time.secs \in 0..59
            /\ time.mins = total \div 60
            /\ time.secs = total % 60

\* C28: with a zero or negative rate every word duration and every remaining
\* time the engine computes is that of a positive rate: positive (not
\* negative, for the remaining time) and finite.
C28_RateClamped ==
    /\ (query.fn = "getWordDuration" /\ query.args.wpm <= 0) =>
           query.result.finite /\ query.result.ms > 0
    /\ (query.fn = "getProgress" /\ query.args.wpm <= 0) =>
           /\ query.result.remainingTime.finite
           /\ query.result.remainingTime.mins >= 0
           /\ query.result.remainingTime.secs >= 0

\* the positions of text at which a maximal run of non-whitespace starts
RunStarts(text) ==
    {k \in 1..Len(text) :
        text[k] \notin Whitespace /\ (k = 1 \/ text[k - 1] \in Whitespace)}

\* the maximal run of non-whitespace of text that starts at position k
RunAt(text, k) ==
    LET e == CHOOSE e \in k..Len(text) :
                 /\ \A j \in k..e : text[j] \notin Whitespace
                 /\ e = Len(text) \/ text[e + 1] \in Whitespace
    IN  SubSeq(text, k, e)

\* C29: for every text, parseText returns, in the order of the text, exactly
\* the maximal runs of non-whitespace of the text without its citation
\* markers and URLs: as many tokens as there are runs, none empty, none with
\* whitespace in it.
C29_Tokens ==
    query.fn = "parseText" =>
        LET cleaned == removeCitations(query.args.text)
            starts == RunStarts(cleaned)
            tokens == query.result
        IN  /\ Len(tokens) = Cardinality(starts)
            /\ \A k \in starts :
                   tokens[Cardinality({j \in starts : j <= k})] = RunAt(cleaned, k)
            /\ \A i \in 1..Len(tokens) :
                   /\ tokens[i] # <<>>
                   /\ \A j \in 1..Len(tokens[i]) : tokens[i][j] \notin Whitespace

\* a text with URLs, a citation marker inside a word and runs of whitespace
C29_Witness ==
    /\ query.fn = "parseText"
    /\ query.args.text = UrlText
    /\ query.result = << <<"a">>, <<"b", "c">>, <<"d">> >>

-----------------------------------------------------------------------------
(* Properties of uninterrupted playback (SpecOnTime, SpecFair)             *)

\* the delays of the tokens of HelloText at 600 words per minute
HelloDelays == <<150, 200, 100, 100, 100, 100>>

\* in the machine m the token at currentIndex has just been emitted, to the
\* hooks App installs, and is held for its duration at the current rate
Held(m) ==
    LET word == m.words[m.currentIndex + 1]
    IN  /\ m.isPlaying
        /\ m.currentIndex < Len(m.words)
        /\ m.emitted =
               << WordChange(splitWord(word)),
                  Progress(getProgress(Len(m.words), m.currentIndex, m.settingsWpm)) >>
        /\ m.timeouts =
               {[id |-> m.timer, due |-> m.now + getWordDuration(word, m.settingsWpm)]}
        /\ (m.words = parseText(HelloText) /\ m.settingsWpm = 600) =>
               m.timeouts =
                   {[id |-> m.timer, due |-> m.now + HelloDelays[m.currentIndex + 1]]}

\* in the machine m playback has just completed
Finished(m) ==
    /\ ~m.isPlaying
    /\ m.currentIndex = Len(m.words)
    /\ m.timeouts = {}
    /\ m.emitted = <<Complete>>

\* the machine after the step
After ==
    [words |-> words', currentIndex |-> currentIndex', isPlaying |-> isPlaying',
     timer |-> timer', expectedTime |-> expectedTime', hooks |-> hooks',
     settingsWpm |-> settingsWpm', timeouts |-> timeouts', now |-> now',
     emitted |-> emitted', playPauseBtn |-> playPauseBtn',
     readerViewHidden |-> readerViewHidden', stored |-> stored']

\* C25: when no timeout fires late, play() at index 0 of a non-empty sequence
\* emits the first token, every timeout fires when the delay of the token
\* emitted before it has elapsed and emits the next token, each token being
\* held for its duration at the current rate, and the timeout after the last
\* token emits playback-complete, once; the delays of "Hello, world. This is
\* a test" at 600 words per minute are 150, 200, 100, 100, 100, 100 ms.
C25_Playthrough ==
    [][/\ (PlayFromStart /\ words # <<>>) => (currentIndex' = 0 /\ Held(After))
       /\ TimerFires =>
              /\ now = NextDue
              /\ currentIndex' = currentIndex + 1
              /\ IF currentIndex' < Len(words)
                 THEN Held(After) ELSE Finished(After)]_vars

\* the playback of "Hello, world. This is a test" at 600 words per minute
\* has completed after 750 ms
C25_Witness ==
    /\ lastOp.op = "timer"
    /\ words = parseText(HelloText)
    /\ settingsWpm = 600
    /\ now = 750
    /\ Finished([Machine EXCEPT !.emitted = emitted])

\* C30: when time passes and due timeouts fire, a play() on a non-empty
\* sequence that nothing but rate changes follows leads to the state with
\* currentIndex = words.length, not playing, nothing pending, the completion
\* hook just invoked.
C30_Completes ==
    (lastOp.op = "play" /\ words # <<>>) ~>
        (/\ currentIndex = Len(words)
         /\ ~isPlaying
         /\ timeouts = {}
         /\ Completions = 1)

\* a playback whose last timeout fired late has completed
C30_Witness ==
    /\ lastOp.op = "timer"
    /\ words # <<>>
    /\ currentIndex = Len(words)
    /\ ~isPlaying
    /\ timeouts = {}
    /\ Completions = 1
    /\ now > expectedTime

-----------------------------------------------------------------------------
(* Properties of the tokens, the rate and the steps                        *)

\* the string s has a citation marker in it: "[", one or more digits, "]"
HasMarker(s) == \E i \in 1..Len(s) : CitationMatch(s, i) > 0

\* C32: for every text, the text "[[1]2] x" with a marker inside a marker
\* among them, no token parseText returns has a citation marker in it.
C32_NoMarkerLeft ==
    query.fn = "parseText" =>
        \A k \in 1..Len(query.result) : ~HasMarker(query.result[k])

\* C34: between operations a step is pending exactly when the engine is
\* playing: one step when it is playing, none when it is not.
C34_PendingIffPlaying ==
    /\ isPlaying => PendingSteps = 1
    /\ ~isPlaying => PendingSteps = 0

\* a playback has completed at the terminal position: the last timeout has
\* fired and has left no step pending and the engine stopped
C34_Witness ==
    /\ lastOp.op = "timer"
    /\ lastOp.from.isPlaying
    /\ lastOp.from.pending = 1
    /\ Len(words) >= 2
    /\ currentIndex = Len(words)
    /\ ~isPlaying
    /\ PendingSteps = 0

\* C35: timeouts never firing early and the clock never going back, the
\* drift now - expectedTime that a playback step computes is not negative,
\* at play (where the anchor is the current time) and at every timeout,
\* whatever the rate has become since the step before.
C35_DriftNotNegative ==
    [][/\ TimerFires => now - expectedTime >= 0
       /\ (CallPlay /\ ~isPlaying /\ words # <<>>) =>
              expectedTime' - getWordDuration(words[currentIndex' + 1], PulledRate) = now
      ]_vars

\* a timeout has fired later than the duration of the next token after it
\* was due: its step has found a drift larger than that duration and has
\* set a timeout with no delay, which is due after the anchor
C35_Witness ==
    /\ lastOp.op = "timer"
    /\ isPlaying
    /\ timeouts = {[id |-> timer, due |-> now]}
    /\ now > expectedTime

\* C36: play() on an empty sequence leaves the engine not playing at index 0
\* with no step pending, invokes neither the word hook nor the progress
\* hook, and invokes the completion hook, when set, once.
C36_PlayOnEmpty ==
    (lastOp.op = "play" /\ words = <<>>) =>
        /\ ~isPlaying
        /\ currentIndex = 0
        /\ PendingSteps = 0
        /\ emitted = IF "onComplete" \in hooks THEN <<Complete>> ELSE <<>>

\* play was called, the hooks set, after init of a text made of a citation
\* marker and whitespace
C36_Witness ==
    /\ lastOp.op = "play"
    /\ words = <<>>
    /\ hooks # {}
    /\ Completions = 1
    /\ ~isPlaying

\* C37: play() on an engine that is not playing sets the anchor to the
\* current time, so that the timeout it sets is due after the full duration
\* of the token at the index, however long ago the anchor was set before.
C37_PlayFullDuration ==
    [][(CallPlay /\ ~isPlaying /\ words # <<>>) =>
           LET duration == getWordDuration(words[currentIndex' + 1], PulledRate)
           IN  /\ expectedTime' = now + duration
               /\ timeouts' = {[id |-> timer', due |-> now + duration]}]_vars

\* play has resumed in the middle of the sequence, later than the anchor of
\* the playback before would have the token end
C37_Witness ==
    /\ lastOp.op = "play"
    /\ ~lastOp.from.isPlaying
    /\ lastOp.from.currentIndex >= 1
    /\ lastOp.from.currentIndex < Len(words)
    /\ now >= 300
    /\ timeouts = {[id |-> timer,
                    due |-> now + getWordDuration(words[currentIndex + 1], PulledRate)]}

\* C38: every invocation of the progress hook, by whichever operation,
\* reports a word ordinal from 1 to the number of tokens.
C38_OrdinalInRange ==
    \A k \in 1..Len(emitted) :
        emitted[k].hook = "onProgress" =>
            /\ 1 <= emitted[k].arg.currentWord
            /\ emitted[k].arg.currentWord <= emitted[k].arg.totalWords

-----------------------------------------------------------------------------
(* Properties of playback with late timeouts (SpecFair)                    *)

\* C31: in a playback from index 0 that nothing interrupts, every timeout
\* firing at most MaxLatency ms after it is due and no token lasting less
\* than MaxLatency, the step of token k begins not before T_k and not later
\* than T_k + MaxLatency, T_k being the time of play() plus the durations of
\* the tokens before k: the anchor is T_1 after play() and moves from T_k to
\* T_k+1 at the step of token k, and the timeout of that step fires between
\* the anchor and MaxLatency ms after it.
C31_NoAccumulation ==
    [][/\ (PlayFromStart /\ words # <<>>) =>
              expectedTime' = now + getWordDuration(words[1], PulledRate)
       /\ TimerFires =>
              /\ expectedTime <= now
              /\ now <= expectedTime + MaxLatency
              /\ isPlaying' =>
                     expectedTime' = expectedTime
                         + getWordDuration(words[currentIndex' + 1], PulledRate)
      ]_vars

\* "Hello, world. This is a test" has been played at 600 words per minute,
\* the clock ticking every 100 ms: the timeouts due at 150, 350, 450, 550,
\* 650 and 750 have each fired 50 ms late, the anchor is the sum 750 of the
\* durations, and the last step has begun at 800, not at 750 + 6 * 50
C31_Witness ==
    /\ lastOp.op = "timer"
    /\ words = parseText(HelloText)
    /\ currentIndex = Len(words)
    /\ expectedTime = 750
    /\ now = 800

-----------------------------------------------------------------------------
(* Properties of the application (SpecApp)                                 *)

\* C33: in every state of the application, whatever the settings item in
\* localStorage held when the page was loaded, the rate the getWPM hook
\* returns is a number from 100 to 1000.
C33_RateInRange ==
    "getWPM" \in hooks => (100 <= settingsWpm /\ settingsWpm <= 1000)

\* C39: after every event the application handles and every timeout, for
\* every text startReading accepts, the button is labelled Pause exactly
\* when the Reader is playing.
C39_ButtonShowsMode ==
    (playPauseBtn = "Pause") <=> isPlaying

\* C40: while the input view is the visible view the Reader is not playing
\* and no step is pending, and a key pressed then changes nothing of the
\* Reader: playback runs only while the reader view is visible.
C40_InputViewIdle ==
    [][/\ readerViewHidden => (~isPlaying /\ PendingSteps = 0)
       /\ readerViewHidden' => (~isPlaying' /\ timeouts' = {})
       /\ \A e \in KeyEvents :
              (readerViewHidden /\ KeyDown(e)) =>
                  /\ UNCHANGED <<words, currentIndex, isPlaying, timer,
                                 expectedTime, timeouts>>
                  /\ emitted' = <<>>
      ]_vars

\* the space key was pressed in the input view, the focus not in the
\* textarea, some time after a text of two words had been loaded
C40_Witness ==
    /\ lastOp.op = "App.handleKeyboard"
    /\ lastOp.key = " "
    /\ lastOp.target = "BODY"
    /\ lastOp.hidden
    /\ readerViewHidden
    /\ Len(words) >= 2
    /\ now > 0

=============================================================================
